---- MODULE Spec2Model ----
(***************************************************************************)
(* Model of src/Hacker.py: the CasinoAnalyzer pattern engine (four         *)
(* detectors, two scorers, one predictor) and the Streamlit host loop of   *)
(* main() that owns the outcome history.                                   *)
(*                                                                         *)
(* Outcomes are the strings "C", "V", "E" (E is the tie).  Python floats   *)
(* are modelled as exact rationals <<numerator, denominator>> with a       *)
(* positive denominator; every comparison the code makes on them is made   *)
(* by cross-multiplication.  Python lists are sequences: Python index i is *)
(* index i+1 here, and the 'position' payload keeps the Python index.      *)
(* Non-ASCII text of the source is transliterated to ASCII.                *)
(***************************************************************************)
EXTENDS Integers, Sequences, FiniteSets, TLC

VARIABLES
    history,       \* st.session_state.history
    clicked,       \* the button that triggered the current rerun of main()
    pc,            \* position inside main(): "buttons" or "render"
    patterns,      \* main(): patterns
    risk,          \* main(): risk
    manipulation,  \* main(): manipulation
    prediction,    \* main(): prediction
    history2,      \* a second, independent snapshot analysed beside history
    prediction2    \* the prediction computed for history2

vars == <<history, clicked, pc, patterns, risk, manipulation, prediction,
          history2, prediction2>>

-----------------------------------------------------------------------------
(* Bounds of the model.                                                    *)

\* longest history the host loop is driven to
MaxLen == 8

\* longest tie-free history enumerated exhaustively from 12 upward
MaxTieFree == 12

\* most blocks concatenated into a long history
MaxBlocks == 5

\* longest pattern list handed directly to the scorers
MaxPatterns == 2

\* longest history of a pair of independent snapshots
MaxPairLen == 4

-----------------------------------------------------------------------------
(* Exact rationals standing for Python floats.                             *)

Rat(n, d) == <<n, d>>
Int2Rat(n) == <<n, 1>>
RLess(a, b) == a[1] * b[2] < b[1] * a[2]
RLeq(a, b) == a[1] * b[2] <= b[1] * a[2]
REq(a, b) == a[1] * b[2] = b[1] * a[2]

\* Python's min(a, b): the first argument unless the second is smaller.
RMin(a, b) == IF RLess(b, a) THEN b ELSE a

Min(a, b) == IF b < a THEN b ELSE a
Max(a, b) == IF b > a THEN b ELSE a

-----------------------------------------------------------------------------
(* List helpers.                                                           *)

Outcomes == {"C", "V", "E"}

\* [r for r in self.results if r != 'E']
IsNotEmpate(r) == r # "E"
NonEmpate(results) == SelectSeq(results, IsNotEmpate)

\* results[-n:]
LastN(s, n) == SubSeq(s, Max(1, Len(s) - n + 1), Len(s))

\* list.count(x)
CountOf(s, x) == Cardinality({i \in 1..Len(s) : s[i] = x})

-----------------------------------------------------------------------------
(* Pattern records.  A Python dict with kind-specific keys becomes one     *)
(* record shape; a key the dict does not carry holds the default that      *)
(* dict.get(key, default) would give (0 for 'repetitions').                *)

Pattern(type, strength, risk_tier, description, manip, predictability) ==
    [type |-> type, strength |-> strength, risk |-> risk_tier,
     description |-> description, manipulation |-> manip,
     predictability |-> predictability,
     cycle_size |-> 0, pattern |-> <<>>, repetitions |-> 0,
     window_size |-> 0, balance |-> <<0, 0>>, imbalance |-> 0,
     favored_color |-> "", position |-> -1,
     sequence_color |-> "", sequence_length |-> 0,
     from_color |-> "", to_color |-> ""]

-----------------------------------------------------------------------------
(* CasinoAnalyzer.analyze_micro_patterns                                   *)
\* the same count without the "!= 'E'" test
double_pattern_count_with_ties(last6) ==
    Cardinality({i \in {1, 3, 5} : last6[i] = last6[i + 1]})

\* sum(1 for i in range(0, 6, 2) if i + 1 < 6 and last6[i] == last6[i+1]
\*                                  and last6[i] != 'E')
double_pattern_count(last6) ==
    Cardinality({i \in {1, 3, 5} : last6[i] = last6[i + 1] /\ last6[i] # "E"})

micro_double_pattern(count) ==
    Pattern("micro_double_pattern", Rat(count, 3),
            IF count = 3 THEN "critical" ELSE "high",
            <<"Padrao 2x2 repetitivo", ToString(count), "3">>,
            IF count = 3 THEN "CRITICA - Sistema forcando padrao" ELSE "ALTA",
            Int2Rat(85))

\* [r for r in self.results if r != 'E'][-8:]
last8_non_empate(results) == LastN(NonEmpate(results), 8)

\* sum(1 for i in range(1, min(6, len(last8))) if last8[i] != last8[i-1])
micro_alternations(last8) ==
    Cardinality({i \in 2..Min(6, Len(last8)) : last8[i] # last8[i - 1]})

micro_alternation(count) ==
    Pattern("micro_alternation", Rat(count, 5),
            IF count = 5 THEN "critical" ELSE "high",
            <<"Micro-alternacao suspeita", ToString(count), "5">>,
            "Sistema induzindo alternancia artificial",
            Int2Rat(90))

analyze_micro_patterns(results) ==
    IF Len(results) < 6 THEN <<>>
    ELSE LET dpc   == double_pattern_count(LastN(results, 6))
             last8 == last8_non_empate(results)
             alt   == micro_alternations(last8)
         IN (IF dpc >= 2 THEN <<micro_double_pattern(dpc)>> ELSE <<>>)
            \o (IF Len(last8) >= 6 /\ alt >= 4
                THEN <<micro_alternation(alt)>> ELSE <<>>)

-----------------------------------------------------------------------------
(* CasinoAnalyzer.detect_hidden_cycles                                     *)

\* [''.join(non_empate[i:i+cycle_size]) for i in range(len(non_empate) - cycle_size + 1)]
cycles_of(non_empate, cycle_size) ==
    [i \in 1..(Len(non_empate) - cycle_size + 1) |->
        SubSeq(non_empate, i, i + cycle_size - 1)]

\* Counter(cycles)[cycles[i]]
cycle_count(cycles, i) ==
    Cardinality({j \in 1..Len(cycles) : cycles[j] = cycles[i]})

\* 70 + (count * 5)
cycle_predictability(count) == Int2Rat(70 + (count * 5))

\* min(count / 3, 1)
cycle_strength(count) == RMin(Rat(count, 3), Int2Rat(1))

hidden_cycle(cycle_size, most_repeated, count) ==
    [Pattern("hidden_cycle", cycle_strength(count),
             IF count >= 3 THEN "high" ELSE "medium",
             <<"Ciclo oculto detectado">> \o most_repeated \o <<ToString(count)>>,
             IF count >= 3 THEN "Sistema usando ciclo programado"
                           ELSE "Possivel ciclo induzido",
             cycle_predictability(count))
     EXCEPT !.cycle_size = cycle_size, !.pattern = most_repeated,
            !.repetitions = count]

\* One iteration of "for cycle_size in range(3, 7)".  Counter keeps its keys
\* in first-seen order and max() returns the first maximal item, so the
\* chosen substring is the first-seen one among those of highest count.
hidden_cycle_for(non_empate, cycle_size) ==
    LET cycles == cycles_of(non_empate, cycle_size)
        n      == Len(cycles)
        cnt    == [i \in 1..n |-> cycle_count(cycles, i)]
        first  == {i \in 1..n : \A j \in 1..(i - 1) : cycles[j] # cycles[i]}
        rep    == {i \in first : cnt[i] >= 2}
    IN IF rep = {} THEN <<>>
       ELSE LET best == CHOOSE i \in rep :
                           /\ \A j \in rep : cnt[j] <= cnt[i]
                           /\ \A j \in rep : cnt[j] = cnt[i] => i <= j
            IN <<hidden_cycle(cycle_size, cycles[best], cnt[best])>>

\* the length test off by one: "<= 12" for "< 12"
detect_hidden_cycles_from_13(results) ==
    LET non_empate == NonEmpate(results)
    IN IF Len(non_empate) <= 12 THEN <<>>
       ELSE hidden_cycle_for(non_empate, 3) \o hidden_cycle_for(non_empate, 4)
            \o hidden_cycle_for(non_empate, 5) \o hidden_cycle_for(non_empate, 6)

detect_hidden_cycles(results) ==
    LET non_empate == NonEmpate(results)
    IN IF Len(non_empate) < 12 THEN <<>>
       ELSE hidden_cycle_for(non_empate, 3) \o hidden_cycle_for(non_empate, 4)
            \o hidden_cycle_for(non_empate, 5) \o hidden_cycle_for(non_empate, 6)

-----------------------------------------------------------------------------
(* CasinoAnalyzer.analyze_compensation_patterns                            *)

artificial_balance(window_size, c_count, v_count) ==
    LET imbalance == IF c_count >= v_count THEN c_count - v_count
                                           ELSE v_count - c_count
    IN [Pattern("artificial_balance",
                Rat(window_size - imbalance, window_size),
                "high",
                <<"Equilibrio artificial", ToString(window_size)>>,
                "Sistema forcando distribuicao 50/50",
                Int2Rat(85))
        EXCEPT !.window_size = window_size, !.balance = <<c_count, v_count>>]

\* 60 + (balance_ratio * 20)
compensation_predictability(imbalance, window_size) ==
    Rat(60 * window_size + imbalance * 20, window_size)

compensation_pending(window_size, c_count, v_count) ==
    LET imbalance == IF c_count >= v_count THEN c_count - v_count
                                           ELSE v_count - c_count
        underrepresented == IF c_count < v_count THEN "C" ELSE "V"
    IN [Pattern("compensation_pending",
                Rat(imbalance, window_size),
                "medium",
                <<"Compensacao pendente", ToString(c_count), ToString(v_count)>>,
                IF c_count < v_count THEN "Sistema deve favorecer C"
                                     ELSE "Sistema deve favorecer V",
                compensation_predictability(imbalance, window_size))
        EXCEPT !.window_size = window_size, !.imbalance = imbalance,
               !.favored_color = underrepresented]

\* One iteration of "for window_size in windows".
compensation_for(non_empate, window_size) ==
    IF Len(non_empate) >= window_size
    THEN LET window    == LastN(non_empate, window_size)
             c_count   == CountOf(window, "C")
             v_count   == CountOf(window, "V")
             imbalance == IF c_count >= v_count THEN c_count - v_count
                                                ELSE v_count - c_count
             balance_ratio == Rat(imbalance, window_size)
         IN (IF RLess(balance_ratio, Rat(1, 10)) /\ window_size >= 15
             THEN <<artificial_balance(window_size, c_count, v_count)>>
             ELSE <<>>)
            \o (IF RLess(Rat(4, 10), balance_ratio)
                THEN <<compensation_pending(window_size, c_count, v_count)>>
                ELSE <<>>)
    ELSE <<>>

analyze_compensation_patterns(results) ==
    LET non_empate == NonEmpate(results)
    IN IF Len(non_empate) < 20 THEN <<>>
       ELSE compensation_for(non_empate, 12) \o compensation_for(non_empate, 15)
            \o compensation_for(non_empate, 18)

-----------------------------------------------------------------------------
(* CasinoAnalyzer.analyze_strategic_ties                                   *)

RECURSIVE get_sequence_length_from(_, _, _)
\* the loop "for i in range(len(seq)-2, -1, -1)": i is the Python index
get_sequence_length_from(seq, i, length) ==
    IF i < 0 THEN length
    ELSE IF seq[i + 1] = seq[Len(seq)]
         THEN get_sequence_length_from(seq, i - 1, length + 1)
         ELSE length

get_sequence_length(seq) ==
    IF seq = <<>> THEN 0 ELSE get_sequence_length_from(seq, Len(seq) - 2, 1)

\* results[max(0, tie_pos-3):tie_pos]
before_of(results, tie_pos) == SubSeq(results, Max(0, tie_pos - 3) + 1, tie_pos)

\* results[tie_pos+1:tie_pos+4]
after_of(results, tie_pos) ==
    SubSeq(results, tie_pos + 2, Min(Len(results), tie_pos + 4))

strategic_tie_after_sequence(tie_pos, before) ==
    [Pattern("strategic_tie_after_sequence", Rat(7, 10), "high",
             <<"Empate estrategico apos", ToString(get_sequence_length(before)),
               before[Len(before)]>>,
             "Empate usado para quebrar momentum",
             Int2Rat(75))
     EXCEPT !.position = tie_pos, !.sequence_color = before[Len(before)],
            !.sequence_length = get_sequence_length(before)]

strategic_tie_before_reversal(tie_pos, before_color, after_color) ==
    [Pattern("strategic_tie_before_reversal", Rat(8, 10), "high",
             <<"Empate estrategico antes de reversao", before_color, after_color>>,
             "Empate usado para mascarar mudanca direcionada",
             Int2Rat(80))
     EXCEPT !.position = tie_pos, !.from_color = before_color,
            !.to_color = after_color]

\* The body of "for tie_pos in tie_positions" for one Python index tie_pos.
strategic_ties_at(results, tie_pos) ==
    IF tie_pos >= 3
    THEN LET before == before_of(results, tie_pos)
             after  == after_of(results, tie_pos)
         IN (IF /\ Len(before) >= 2
                /\ before[Len(before)] = before[Len(before) - 1]
                /\ before[Len(before)] # "E"
             THEN <<strategic_tie_after_sequence(tie_pos, before)>>
             ELSE <<>>)
            \o (IF /\ Len(after) >= 2 /\ Len(before) >= 1
                   /\ before[Len(before)] # "E" /\ after[1] # "E"
                   /\ before[Len(before)] # after[1]
                THEN <<strategic_tie_before_reversal(tie_pos, before[Len(before)],
                                                     after[1])>>
                ELSE <<>>)
    ELSE <<>>

RECURSIVE strategic_ties_from(_, _)
\* the loop over tie_positions, in increasing index order
strategic_ties_from(results, pos) ==
    IF pos >= Len(results) THEN <<>>
    ELSE (IF results[pos + 1] = "E" THEN strategic_ties_at(results, pos) ELSE <<>>)
         \o strategic_ties_from(results, pos + 1)

analyze_strategic_ties(results) ==
    IF Len(results) < 8 THEN <<>> ELSE strategic_ties_from(results, 0)

-----------------------------------------------------------------------------
(* CasinoAnalyzer.assess_risk                                              *)

\* pattern['type'].startswith('strategic_tie')
StartsWithStrategicTie(type) ==
    type \in {"strategic_tie_after_sequence", "strategic_tie_before_reversal"}

\* The if/elif chain of the loop body: <<points added, factor appended>>,
\* <<0, "">> when no branch matches.
risk_rule(pattern) ==
    IF pattern.type = "micro_double_pattern" /\ RLeq(Rat(8, 10), pattern.strength)
    THEN <<70, "Padrao 2x2 critico detectado">>
    ELSE IF pattern.type = "micro_alternation" /\ RLeq(Rat(8, 10), pattern.strength)
    THEN <<65, "Alternacao artificial critica">>
    ELSE IF pattern.type = "hidden_cycle" /\ pattern.repetitions >= 3
    THEN <<60, "Ciclo programado ativo " \o ToString(pattern.repetitions)>>
    ELSE IF pattern.type = "artificial_balance"
    THEN <<55, "Equilibrio artificial forcado">>
    ELSE IF pattern.type = "intentional_break"
    THEN <<50, "Quebra intencional detectada">>
    ELSE IF StartsWithStrategicTie(pattern.type)
    THEN <<40, "Empate estrategico detectado">>
    ELSE <<0, "">>

RECURSIVE risk_loop(_, _, _, _)
\* "for pattern in patterns": i is the next index, the rest the accumulators
risk_loop(pats, i, risk_score, risk_factors) ==
    IF i > Len(pats) THEN [score |-> risk_score, factors |-> risk_factors]
    ELSE LET r == risk_rule(pats[i])
         IN IF r[1] = 0
            THEN risk_loop(pats, i + 1, risk_score, risk_factors)
            ELSE risk_loop(pats, i + 1, risk_score + r[1],
                           Append(risk_factors, r[2]))

risk_level(risk_score) ==
    IF risk_score >= 80 THEN "critical"
    ELSE IF risk_score >= 55 THEN "high"
    ELSE IF risk_score >= 30 THEN "medium"
    ELSE "low"

\* the score returned without min(risk_score, 100)
assess_risk_unclamped(pats) ==
    LET acc == risk_loop(pats, 1, 0, <<>>)
    IN [level |-> risk_level(acc.score), score |-> acc.score,
        factors |-> acc.factors]

assess_risk(pats) ==
    LET acc == risk_loop(pats, 1, 0, <<>>)
    IN [level |-> risk_level(acc.score), score |-> Min(acc.score, 100),
        factors |-> acc.factors]

-----------------------------------------------------------------------------
(* CasinoAnalyzer.detect_manipulation                                      *)

\* The if/elif chain on pattern.get('predictability', 0).
manipulation_rule(pattern) ==
    IF RLeq(Int2Rat(90), pattern.predictability)
    THEN <<80, <<"Padrao altamente artificial">> \o pattern.description>>
    ELSE IF RLeq(Int2Rat(80), pattern.predictability)
    THEN <<60, <<"Padrao programado">> \o pattern.description>>
    ELSE IF RLeq(Int2Rat(70), pattern.predictability)
    THEN <<40, <<"Padrao suspeito">> \o pattern.description>>
    ELSE <<0, <<>>>>

RECURSIVE manipulation_loop(_, _, _, _)
manipulation_loop(pats, i, manipulation_score, manipulation_signs) ==
    IF i > Len(pats)
    THEN [score |-> manipulation_score, signs |-> manipulation_signs]
    ELSE LET r == manipulation_rule(pats[i])
         IN IF r[1] = 0
            THEN manipulation_loop(pats, i + 1, manipulation_score,
                                   manipulation_signs)
            ELSE manipulation_loop(pats, i + 1, manipulation_score + r[1],
                                   Append(manipulation_signs, r[2]))

manipulation_level(manipulation_score) ==
    IF manipulation_score >= 80 THEN "critical"
    ELSE IF manipulation_score >= 60 THEN "high"
    ELSE IF manipulation_score >= 35 THEN "medium"
    ELSE "low"

\* the risk argument is accepted and never read
detect_manipulation(pats, risk_arg) ==
    LET acc == manipulation_loop(pats, 1, 0, <<>>)
    IN [level |-> manipulation_level(acc.score), score |-> Min(acc.score, 100),
        signs |-> acc.signs]

-----------------------------------------------------------------------------
(* CasinoAnalyzer.predict_next_in_cycle and make_prediction                *)

None == "None"

\* The for/break loop computes nothing that is used; the result is
\* pattern[len(non_empate) % len(pattern)].
predict_next_in_cycle(results, pattern) ==
    LET non_empate == NonEmpate(results)
    IN IF pattern = <<>> \/ non_empate = <<>> THEN None
       ELSE LET cycle_len == Len(pattern)
                pos == Len(non_empate) % cycle_len
            IN IF pos < cycle_len THEN pattern[pos + 1] ELSE None

IsCompensationPending(p) == p.type = "compensation_pending"
IsRepeatedCycle(p) == p.type = "hidden_cycle" /\ p.repetitions >= 2

\* next((p for p in patterns if p['type'] == 'compensation_pending'), None):
\* the index of the first match, 0 for None
FirstCompensationPending(pats) ==
    IF \E i \in 1..Len(pats) : IsCompensationPending(pats[i])
    THEN CHOOSE i \in 1..Len(pats) :
            /\ IsCompensationPending(pats[i])
            /\ \A j \in 1..(i - 1) : ~IsCompensationPending(pats[j])
    ELSE 0

\* next((p for p in patterns if p['type'] == 'hidden_cycle'
\*       and p.get('repetitions', 0) >= 2), None)
FirstRepeatedCycle(pats) ==
    IF \E i \in 1..Len(pats) : IsRepeatedCycle(pats[i])
    THEN CHOOSE i \in 1..Len(pats) :
            /\ IsRepeatedCycle(pats[i])
            /\ \A j \in 1..(i - 1) : ~IsRepeatedCycle(pats[j])
    ELSE 0

default_prediction ==
    [color |-> None, confidence |-> Int2Rat(0), reasoning |-> <<>>,
     strategy |-> "AGUARDAR MELHORES CONDICOES"]

\* min(75, 55 + (compensation_pattern['strength'] * 20))
compensation_confidence(strength) ==
    RMin(Int2Rat(75), Rat(55 * strength[2] + strength[1] * 20, strength[2]))

\* min(70, 50 + (cycle_pattern['repetitions'] * 5))
cycle_confidence(repetitions) == Int2Rat(Min(70, 50 + (repetitions * 5)))

\* the comparison reversed: the less frequent color
least_common_color(non_empate) ==
    LET c == CountOf(non_empate, "C")
        v == CountOf(non_empate, "V")
    IN IF c < v THEN <<"C", c>>
       ELSE IF v < c THEN <<"V", v>>
       ELSE <<non_empate[1], c>>

\* counter.most_common(1)[0]: the highest count, the first-seen color on a draw
most_common_color(non_empate) ==
    LET c == CountOf(non_empate, "C")
        v == CountOf(non_empate, "V")
    IN IF c > v THEN <<"C", c>>
       ELSE IF v > c THEN <<"V", v>>
       ELSE <<non_empate[1], c>>

\* max() written for min()
fallback_confidence_max(count, total) ==
    IF RLess(Rat(count * 100, total), Int2Rat(75)) THEN Int2Rat(75)
    ELSE Rat(count * 100, total)

\* min((count / len(non_empate)) * 100, 75)
fallback_confidence(count, total) == RMin(Rat(count * 100, total), Int2Rat(75))

\* lines 265-278: the frequency fallback
fallback_prediction(results) ==
    LET non_empate == NonEmpate(results)
    IN IF non_empate = <<>> THEN default_prediction
       ELSE LET mc == most_common_color(non_empate)
            IN [color |-> mc[1],
                confidence |-> fallback_confidence(mc[2], Len(non_empate)),
                reasoning |-> <<"Aposta baseada em frequencia historica", mc[1],
                                ToString(mc[2]), ToString(Len(non_empate))>>,
                strategy |-> "APOSTAR NA PRINCIPAL COR"]

\* lines 241-278: the branches that may return a color
betting_branches(results, pats, risk_arg, manipulation_arg) ==
    LET ci  == FirstCompensationPending(pats)
        yi  == FirstRepeatedCycle(pats)
        low == risk_arg.level = "low" /\ manipulation_arg.level = "low"
    IN IF ci # 0 /\ low
       THEN [color |-> pats[ci].favored_color,
             confidence |-> compensation_confidence(pats[ci].strength),
             reasoning |-> <<"Compensacao estatistica esperada">>
                           \o pats[ci].description,
             strategy |-> "APOSTAR COMPENSACAO"]
       ELSE IF /\ yi # 0 /\ low
               /\ predict_next_in_cycle(results, pats[yi].pattern) # None
       THEN [color |-> predict_next_in_cycle(results, pats[yi].pattern),
             confidence |-> cycle_confidence(pats[yi].repetitions),
             reasoning |-> <<"Ciclo detectado">> \o pats[yi].pattern
                           \o <<ToString(pats[yi].repetitions)>>,
             strategy |-> "SEGUIR CICLO"]
       ELSE fallback_prediction(results)

stop_prediction ==
    [default_prediction EXCEPT
        !.reasoning = <<"CONDICOES CRITICAS - Manipulacao maxima detectada">>,
        !.strategy = "PARAR COMPLETAMENTE"]

wait_prediction ==
    [default_prediction EXCEPT
        !.reasoning = <<"Manipulacao alta - Evitar apostas">>,
        !.strategy = "AGUARDAR NORMALIZACAO"]

\* the critical test that forgets the manipulation level
make_prediction_risk_only(results, pats, risk_arg, manipulation_arg) ==
    IF risk_arg.level = "critical" THEN stop_prediction
    ELSE IF manipulation_arg.level = "high" THEN wait_prediction
    ELSE betting_branches(results, pats, risk_arg, manipulation_arg)

make_prediction(results, pats, risk_arg, manipulation_arg) ==
    IF risk_arg.level = "critical" \/ manipulation_arg.level = "critical"
    THEN stop_prediction
    ELSE IF manipulation_arg.level = "high" THEN wait_prediction
    ELSE betting_branches(results, pats, risk_arg, manipulation_arg)

-----------------------------------------------------------------------------
(* main(): one analysis run, lines 328-340.                                *)

\* CasinoAnalyzer.__init__: self.results is the very list object passed in,
\* and main() passes st.session_state.history itself (no copy).
CasinoAnalyzer(hist) == hist

\* a detector that consumes the list with pop() instead of slicing it
results_after_analysis_pop(results) ==
    IF results = <<>> THEN results ELSE SubSeq(results, 1, Len(results) - 1)

\* The content of the list behind self.results once the methods have
\* returned.  They read it through len(), slices, comprehensions,
\* enumerate() and indexing only; nothing assigns to it or calls a mutating
\* method on it.
results_after_analysis(results) == results

Analyze(results) ==
    LET micro_patterns        == analyze_micro_patterns(results)
        hidden_cycles         == detect_hidden_cycles(results)
        compensation_patterns == analyze_compensation_patterns(results)
        strategic_ties        == analyze_strategic_ties(results)
        pats == micro_patterns \o hidden_cycles \o compensation_patterns
                \o strategic_ties
        rsk  == assess_risk(pats)
        man  == detect_manipulation(pats, rsk)
    IN [patterns |-> pats, risk |-> rsk, manipulation |-> man,
        prediction |-> make_prediction(results, pats, rsk, man)]

\* The locals of main() before the analysis has run in the current rerun.
NoAssessment == [level |-> "unset", score |-> 0, factors |-> <<>>]
NoManipulation == [level |-> "unset", score |-> 0, signs |-> <<>>]
NoPrediction ==
    [color |-> None, confidence |-> Int2Rat(0), reasoning |-> <<>>,
     strategy |-> "unset"]

OutputsUnset ==
    /\ patterns' = <<>>
    /\ risk' = NoAssessment
    /\ manipulation' = NoManipulation
    /\ prediction' = NoPrediction

-----------------------------------------------------------------------------
(* main(): the host loop.  Every click reruns main() from the top: the     *)
(* button handlers of lines 303-316 run first (pc = "buttons"), then the   *)
(* display and the analysis of lines 319-340 (pc = "render").              *)

Front(s) == SubSeq(s, 1, Len(s) - 1)

\* history.pop() guarded by "if st.session_state.history"
UndoLast(hist) == IF hist # <<>> THEN Front(hist) ELSE hist

Click(button, newHistory) ==
    /\ pc = "buttons"
    /\ clicked' = button
    /\ history' = newHistory
    /\ pc' = "render"
    /\ OutputsUnset
    /\ UNCHANGED <<history2, prediction2>>

ClickC == Len(history) < MaxLen /\ Click("btn_c", Append(history, "C"))
ClickV == Len(history) < MaxLen /\ Click("btn_v", Append(history, "V"))
ClickE == Len(history) < MaxLen /\ Click("btn_e", Append(history, "E"))
ClickClear == Click("Limpar Historico", <<>>)
ClickUndo == Click("Apagar Ultimo Resultado", UndoLast(history))

\* lines 324-326: nothing to analyse, main() returns
RenderEmpty ==
    /\ pc = "render"
    /\ history = <<>>
    /\ pc' = "buttons"
    /\ clicked' = "none"
    /\ OutputsUnset
    /\ UNCHANGED <<history, history2, prediction2>>

\* lines 328-340
Analysis ==
    /\ pc = "render"
    /\ history # <<>>
    /\ LET self_results == CasinoAnalyzer(history)
           out == Analyze(self_results)
       IN /\ patterns' = out.patterns
          /\ risk' = out.risk
          /\ manipulation' = out.manipulation
          /\ prediction' = out.prediction
          /\ history' = results_after_analysis(self_results)
    /\ pc' = "buttons"
    /\ clicked' = "none"
    /\ UNCHANGED <<history2, prediction2>>

Init ==
    /\ history = <<>>
    /\ clicked = "none"
    /\ pc = "buttons"
    /\ patterns = <<>>
    /\ risk = NoAssessment
    /\ manipulation = NoManipulation
    /\ prediction = NoPrediction
    /\ history2 = <<>>
    /\ prediction2 = NoPrediction

Next ==
    \/ ClickC
    \/ ClickV
    \/ ClickE
    \/ ClickClear
    \/ ClickUndo
    \/ RenderEmpty
    \/ Analysis

Spec == Init /\ [][Next]_vars

-----------------------------------------------------------------------------
(* The analysis applied to snapshots drawn from bounded sets of histories. *)
(* Every history over {C, V, E} is one the host loop can build by clicks.  *)

\* every history of at most MaxLen outcomes
ShortHistories == UNION {[1..n -> Outcomes] : n \in 0..MaxLen}

\* every tie-free history of 12..MaxTieFree outcomes (12 is the least
\* length at which detect_hidden_cycles looks for cycles)
TieFreeHistories == UNION {[1..n -> {"C", "V"}] : n \in 12..MaxTieFree}

Blocks ==
    {<<"C", "C", "C", "C">>, <<"V", "V", "V", "V">>, <<"C", "V", "C", "V">>,
     <<"C", "C", "V", "V">>, <<"V", "E", "C", "C">>}

RECURSIVE Flatten(_)
Flatten(ss) == IF ss = <<>> THEN <<>> ELSE Head(ss) \o Flatten(Tail(ss))

\* histories of 12 to 4*MaxBlocks outcomes made of 3..MaxBlocks blocks
BlockHistories ==
    UNION {{Flatten(f) : f \in [1..n -> Blocks]} : n \in 3..MaxBlocks}

\* the 2x2 scenario history of the specification's testable properties
Scenario2x2 ==
    <<"C", "C", "V", "V", "E", "C", "C", "V", "V", "C", "V", "V">>

PipelineInputs ==
    ShortHistories \cup TieFreeHistories \cup BlockHistories \cup {Scenario2x2}

InitPipeline ==
    /\ history \in PipelineInputs
    /\ clicked = "none"
    /\ pc = "render"
    /\ patterns = <<>>
    /\ risk = NoAssessment
    /\ manipulation = NoManipulation
    /\ prediction = NoPrediction
    /\ history2 = <<>>
    /\ prediction2 = NoPrediction

NextPipeline ==
    \/ RenderEmpty
    \/ Analysis

SpecPipeline == InitPipeline /\ [][NextPipeline]_vars

-----------------------------------------------------------------------------
(* Two independent snapshots analysed side by side.                        *)

PairInputs == UNION {[1..n -> Outcomes] : n \in 1..MaxPairLen}

InitPair ==
    /\ history \in PairInputs
    /\ history2 \in PairInputs
    /\ clicked = "none"
    /\ pc = "render"
    /\ patterns = <<>>
    /\ risk = NoAssessment
    /\ manipulation = NoManipulation
    /\ prediction = NoPrediction
    /\ prediction2 = NoPrediction

AnalysisPair ==
    /\ pc = "render"
    /\ LET out  == Analyze(CasinoAnalyzer(history))
           out2 == Analyze(CasinoAnalyzer(history2))
       IN /\ patterns' = out.patterns
          /\ risk' = out.risk
          /\ manipulation' = out.manipulation
          /\ prediction' = out.prediction
          /\ prediction2' = out2.prediction
    /\ pc' = "buttons"
    /\ UNCHANGED <<history, history2, clicked>>

NextPair == AnalysisPair

SpecPair == InitPair /\ [][NextPair]_vars

-----------------------------------------------------------------------------
(* The scorers and the predictor applied to pattern lists and assessments  *)
(* given directly, as their signatures allow.                              *)

\* the reserved kind assess_risk knows and no detector produces
intentional_break ==
    Pattern("intentional_break", Rat(1, 2), "medium",
            <<"Quebra intencional">>, "", Int2Rat(0))

PatternSamples ==
    {micro_double_pattern(2), micro_double_pattern(3),
     micro_alternation(4), micro_alternation(5),
     hidden_cycle(3, <<"C", "V", "V">>, 2), hidden_cycle(4, <<"C", "C", "V", "C">>, 3),
     artificial_balance(18, 9, 9),
     compensation_pending(12, 3, 9), compensation_pending(15, 11, 4),
     strategic_tie_after_sequence(3, <<"C", "V", "V">>),
     strategic_tie_before_reversal(4, "C", "V"),
     intentional_break}

PatternLists == UNION {[1..n -> PatternSamples] : n \in 0..MaxPatterns}

Levels == {"low", "medium", "high", "critical"}

\* an assessment of each level, with the least score of that level
GivenRisk ==
    {[level |-> risk_level(sc), score |-> sc, factors |-> <<>>] :
        sc \in {0, 30, 55, 80}}
GivenManipulation ==
    {[level |-> manipulation_level(sc), score |-> sc, signs |-> <<>>] :
        sc \in {0, 35, 60, 80}}

ScorerHistories ==
    {<<>>, <<"E", "E">>, <<"C", "V", "V", "E">>, <<"V", "C", "C", "V", "C">>}

InitScorer ==
    /\ history \in ScorerHistories
    /\ patterns \in PatternLists
    /\ risk \in GivenRisk
    /\ manipulation \in GivenManipulation
    /\ clicked = "none"
    /\ pc = "given"
    /\ prediction = NoPrediction
    /\ history2 = <<>>
    /\ prediction2 = NoPrediction

\* lines 338-339 on the given pattern list
Score ==
    /\ pc = "given"
    /\ risk' = assess_risk(patterns)
    /\ manipulation' = detect_manipulation(patterns, assess_risk(patterns))
    /\ pc' = "scored"
    /\ UNCHANGED <<history, clicked, patterns, prediction, history2, prediction2>>

\* line 340 on the assessments at hand, given or computed
Predict ==
    /\ pc \in {"given", "scored"}
    /\ prediction' = make_prediction(history, patterns, risk, manipulation)
    /\ pc' = "predicted"
    /\ UNCHANGED <<history, clicked, patterns, risk, manipulation, history2,
                   prediction2>>

NextScorer ==
    \/ Score
    \/ Predict

SpecScorer == InitScorer /\ [][NextScorer]_vars

-----------------------------------------------------------------------------
(* Properties.                                                             *)

\* the outputs at hand are those of an analysis of the current history
Analysed == pc = "buttons" /\ risk.level # "unset"

PatternsOfType(type) == {i \in 1..Len(patterns) : patterns[i].type = type}

FallbackStrategy == "APOSTAR NA PRINCIPAL COR"

\* number of adjacent pairs of s that differ
Alternations(s) == Cardinality({i \in 1..(Len(s) - 1) : s[i] # s[i + 1]})

\* C1: a micro_alternation pattern is emitted exactly when the tie-filtered
\* history has at least 6 outcomes and at least 4 of the 5 adjacent pairs of
\* the LAST 6 of its last 8 non-tie outcomes differ; its strength is that
\* count over 5 and its risk tier is critical for 5, high otherwise.
C1_AlternationOverLast6 ==
    Analysed =>
        LET ne    == NonEmpate(history)
            last6 == SubSeq(ne, Len(ne) - 5, Len(ne))
            found == PatternsOfType("micro_alternation")
        IN /\ (found # {}) <=> (Len(history) >= 6 /\ Len(ne) >= 6
                                /\ Alternations(last6) >= 4)
           /\ \A i \in found :
                /\ REq(patterns[i].strength, Rat(Alternations(last6), 5))
                /\ patterns[i].risk =
                     (IF Alternations(last6) = 5 THEN "critical" ELSE "high")

\* equal non-tie pairs among the last three pairs of h, counted in place
EqualPairsAtEnd(h) ==
    LET n == Len(h)
    IN Cardinality({k \in {n - 5, n - 3, n - 1} : h[k] = h[k + 1] /\ h[k] # "E"})

DoubleRule ==
    LET found == PatternsOfType("micro_double_pattern")
    IN /\ (found # {}) <=> (Len(history) >= 6 /\ EqualPairsAtEnd(history) >= 2)
       /\ \A i \in found :
            /\ REq(patterns[i].strength, Rat(EqualPairsAtEnd(history), 3))
            /\ patterns[i].risk =
                 (IF EqualPairsAtEnd(history) = 3 THEN "critical" ELSE "high")

\* C2 as stated: for the scenario history the 2x2 check counts 2 pairs and
\* emits a micro_double_pattern of strength 2/3 and risk tier high, and in
\* general it emits exactly when the count over the last 6 outcomes of the
\* full history is at least 2.
C2_ScenarioEmitsDouble ==
    Analysed =>
        /\ DoubleRule
        /\ history = Scenario2x2 =>
              \E i \in PatternsOfType("micro_double_pattern") :
                  /\ REq(patterns[i].strength, Rat(2, 3))
                  /\ patterns[i].risk = "high"

\* C2 amended: the scenario history ends in C,V,V,C,V,V, which holds 1 equal
\* non-tie pair, so no micro_double_pattern is emitted for it; in general
\* the 2x2 check emits exactly when the count over the last 6 outcomes of
\* the full history is at least 2, with strength count/3 and risk tier
\* critical for 3, high otherwise.
C2_DoubleOverLast6 ==
    Analysed =>
        /\ DoubleRule
        /\ history = Scenario2x2 =>
              /\ EqualPairsAtEnd(history) = 1
              /\ PatternsOfType("micro_double_pattern") = {}

C2_Witness ==
    /\ Analysed
    /\ history = Scenario2x2
    /\ PatternsOfType("micro_double_pattern") = {}
    /\ patterns # <<>>

\* C3: every emitted pattern has a predictability in [0,100] and a strength
\* in [0,1].
C3_PatternRanges ==
    Analysed =>
        \A i \in 1..Len(patterns) :
            /\ RLeq(Int2Rat(0), patterns[i].predictability)
            /\ RLeq(patterns[i].predictability, Int2Rat(100))
            /\ RLeq(Int2Rat(0), patterns[i].strength)
            /\ RLeq(patterns[i].strength, Int2Rat(1))

\* the level the documented thresholds give a score
DocumentedLevel(score, critical, high, medium) ==
    CASE score >= critical -> "critical"
      [] score < critical /\ score >= high -> "high"
      [] score < high /\ score >= medium -> "medium"
      [] OTHER -> "low"

\* C4: both scorers return a score in [0,100] and the level the documented
\* thresholds give that returned score (risk 80/55/30, manipulation
\* 80/60/35); for the empty list, score 0, level low and no factors/signs.
C4_ScoresAndLevels ==
    pc = "scored" =>
        /\ risk.score \in 0..100
        /\ manipulation.score \in 0..100
        /\ risk.level = DocumentedLevel(risk.score, 80, 55, 30)
        /\ manipulation.level = DocumentedLevel(manipulation.score, 80, 60, 35)
        /\ patterns = <<>> =>
              /\ risk = [level |-> "low", score |-> 0, factors |-> <<>>]
              /\ manipulation = [level |-> "low", score |-> 0, signs |-> <<>>]

C4_Witness ==
    /\ pc = "scored"
    /\ Len(patterns) = 2
    /\ risk.score = 100 /\ risk.level = "critical" /\ Len(risk.factors) = 2
    /\ manipulation.score = 100 /\ Len(manipulation.signs) = 2

\* C5: with a critical risk or manipulation level the predictor returns no
\* color, confidence 0 and PARAR COMPLETAMENTE, whatever the patterns and the
\* history; with neither critical and a high manipulation level it returns
\* no color, confidence 0 and AGUARDAR NORMALIZACAO.
C5_PriorityOrder ==
    pc = "predicted" =>
        /\ (risk.level = "critical" \/ manipulation.level = "critical") =>
              /\ prediction.color = None
              /\ prediction.confidence = Int2Rat(0)
              /\ prediction.strategy = "PARAR COMPLETAMENTE"
        /\ (/\ risk.level # "critical" /\ manipulation.level # "critical"
            /\ manipulation.level = "high") =>
              /\ prediction.color = None
              /\ prediction.confidence = Int2Rat(0)
              /\ prediction.strategy = "AGUARDAR NORMALIZACAO"

C5_Witness ==
    /\ pc = "predicted"
    /\ risk.level = "low"
    /\ manipulation.level = "critical"
    /\ PatternsOfType("compensation_pending") # {}
    /\ PatternsOfType("hidden_cycle") # {}
    /\ NonEmpate(history) # <<>>
    /\ prediction.strategy = "PARAR COMPLETAMENTE"

RECURSIVE RunEndingAt(_, _)
\* length of the run of h[k] that ends at index k of h
RunEndingAt(h, k) ==
    IF k > 1 /\ h[k - 1] = h[k] THEN 1 + RunEndingAt(h, k - 1) ELSE 1

\* C6: for every tie at Python index >= 3 of a history of at least 8
\* outcomes whose two preceding outcomes are equal and not a tie, a
\* strategic_tie_after_sequence pattern is emitted whose sequence_length is
\* the full length of the run ending just before the tie.
C6_FullRunLength ==
    (Analysed /\ Len(history) >= 8) =>
        \A k \in 4..Len(history) :
            (history[k] = "E" /\ history[k - 1] = history[k - 2]
             /\ history[k - 1] # "E") =>
                \E i \in PatternsOfType("strategic_tie_after_sequence") :
                    /\ patterns[i].position = k - 1
                    /\ patterns[i].sequence_color = history[k - 1]
                    /\ patterns[i].sequence_length = RunEndingAt(history, k - 1)

\* the dominant color's share of the non-tie outcomes of h, as <<count, total>>
DominantShare(h) ==
    LET c == Cardinality({i \in 1..Len(h) : h[i] = "C"})
        v == Cardinality({i \in 1..Len(h) : h[i] = "V"})
    IN Rat(IF c >= v THEN c ELSE v, c + v)

BothFallback ==
    /\ pc = "buttons"
    /\ prediction.strategy = FallbackStrategy
    /\ prediction2.strategy = FallbackStrategy

\* C7 as stated: of two histories that reach the fallback branch, the one of
\* strictly smaller dominant share has the strictly smaller confidence.
C7_StrictlyIncreasing ==
    (BothFallback /\ RLess(DominantShare(history), DominantShare(history2))) =>
        RLess(prediction.confidence, prediction2.confidence)

\* C7 amended: of two histories that reach the fallback branch, the one of
\* strictly smaller dominant share never has the larger confidence, and has
\* the strictly smaller one whenever its share is below 75% (the cap).
C7_IncreasingBelowCap ==
    (BothFallback /\ RLess(DominantShare(history), DominantShare(history2))) =>
        /\ RLeq(prediction.confidence, prediction2.confidence)
        /\ RLess(DominantShare(history), Rat(3, 4)) =>
              RLess(prediction.confidence, prediction2.confidence)

C7_Witness ==
    /\ BothFallback
    /\ RLess(DominantShare(history), Rat(3, 4))
    /\ RLess(Rat(3, 4), DominantShare(history2))
    /\ RLess(prediction.confidence, prediction2.confidence)
    /\ prediction2.confidence = Int2Rat(75)

\* C8: the analysis leaves the history as it found it; the history changes
\* only in the step of a clicked append, undo or clear button, and undo on
\* an empty history leaves it empty.
C8_AnalysisKeepsHistory ==
    [][/\ pc = "render" => history' = history
       /\ history' # history =>
             /\ pc = "buttons"
             /\ clicked' \in {"btn_c", "btn_v", "btn_e", "Limpar Historico",
                              "Apagar Ultimo Resultado"}
       /\ (clicked' = "Apagar Ultimo Resultado" /\ history = <<>>) =>
             history' = <<>>]_vars

C8_Witness ==
    /\ Analysed
    /\ Len(history) = 8
    /\ Len(patterns) >= 3
    /\ prediction.strategy # "unset"

\* C9: with at least 12 non-tie outcomes the pipeline finds a hidden_cycle
\* of cycle size 3 and predictability >= 80, the manipulation level is high
\* or critical and the prediction has no color and confidence 0; no history
\* yields APOSTAR COMPENSACAO or SEGUIR CICLO.
C9_LongHistoriesNeverBet ==
    Analysed =>
        /\ prediction.strategy \notin {"APOSTAR COMPENSACAO", "SEGUIR CICLO"}
        /\ Len(NonEmpate(history)) >= 12 =>
              /\ \E i \in PatternsOfType("hidden_cycle") :
                    /\ patterns[i].cycle_size = 3
                    /\ RLeq(Int2Rat(80), patterns[i].predictability)
              /\ manipulation.level \in {"high", "critical"}
              /\ prediction.color = None
              /\ prediction.confidence = Int2Rat(0)

C9_Witness ==
    /\ Analysed
    /\ Len(NonEmpate(history)) >= 20
    /\ PatternsOfType("compensation_pending") # {}
    /\ PatternsOfType("hidden_cycle") # {}
    /\ prediction.color = None

\* C10: the confidence is 0 exactly when no color is returned; a returned
\* color is C or V with a confidence in [50,75]; in the fallback branch the
\* color is a non-tie outcome of maximal count in the tie-filtered history.
C10_PredictionShape ==
    Analysed =>
        /\ REq(prediction.confidence, Int2Rat(0)) <=> prediction.color = None
        /\ prediction.color # None =>
              /\ prediction.color \in {"C", "V"}
              /\ RLeq(Int2Rat(50), prediction.confidence)
              /\ RLeq(prediction.confidence, Int2Rat(75))
        /\ prediction.strategy = FallbackStrategy =>
              /\ prediction.color \in {"C", "V"}
              /\ \A o \in {"C", "V"} :
                    Cardinality({i \in 1..Len(history) : history[i] = o})
                    <= Cardinality({i \in 1..Len(history) :
                                       history[i] = prediction.color})

C10_Witness ==
    /\ Analysed
    /\ prediction.strategy = FallbackStrategy
    /\ prediction.color = "V"
    /\ RLess(Int2Rat(50), prediction.confidence)
    /\ RLess(prediction.confidence, Int2Rat(75))
    /\ "E" \in {history[i] : i \in 1..Len(history)}

====
